---- MODULE Spec2Model ----
(***************************************************************************)
(* A model of BinanceFutures (src/binanceFuturesClient.py): the instrument *)
(* metadata cache, the position mode held by the exchange, and the order   *)
(* operations of the client.  Every public method is one action: the       *)
(* client is synchronous and single-threaded, so a method runs from its    *)
(* first line to its return without interleaving.  What the exchange       *)
(* answers (prices, position lists, open orders, rejections) is chosen     *)
(* nondeterministically from bounded sets.                                 *)
(*                                                                         *)
(* Units.  Prices and tick sizes are integers in units of 0.1 (price 1000  *)
(* is 100.0, tick 1 is 0.1).  Quantities, position amounts, step sizes and *)
(* minimum quantities are integers in units of one lot fraction.           *)
(* Percentages are whole percents.                                         *)
(***************************************************************************)
EXTENDS Integers, Sequences, FiniteSets, TLC

VARIABLES
    cache,      \* the five private dicts of the client (instrument metadata)
    dual,       \* dualSidePosition, held by the exchange
    call,       \* the last method called, with its arguments
    seen,       \* what the exchange answered during the last call
    sent,       \* the new_order calls of the last method, in order
    cancels,    \* the cancel_open_orders calls of the last method, in order
    ret,        \* the value the last method returned
    pc          \* "idle" between calls, "returned" when a method has returned

vars == <<cache, dual, call, seen, sent, cancels, ret, pc>>

(***************************************************************************)
(* Bounds of the model.                                                    *)
(***************************************************************************)
MaxListed == 2      \* symbols in one exchange_info() answer
MaxPositions == 2   \* entries in one account()['positions'] answer
MaxAmt == 1         \* largest absolute positionAmt
MaxOrders == 3      \* entries in one get_orders() answer
MaxQty == 2         \* largest quantity a caller passes

Symbols == {"BTCUSDT", "ETHUSDT"}

\* An optional value: Python's None or a missing key is <<>>, a value is <<v>>.
None == <<>>
Some(v) == <<v>>

Abs(x) == IF x < 0 THEN -x ELSE x

SeqsUpTo(S, n) == UNION {[1..k -> S] : k \in 0..n}

(***************************************************************************)
(* round_step_size(quantity, step_size) of binance.helpers, on the exact   *)
(* value num/den: quantity - quantity % step_size in decimal arithmetic,   *)
(* where % takes the sign of the dividend.  The result is a multiple of    *)
(* step, in the same units as step.                                        *)
(***************************************************************************)
round_step_size(num, den, step) ==
    IF num >= 0
    THEN step * (num \div (den * step))
    ELSE -(step * ((-num) \div (den * step)))

(***************************************************************************)
(* The instrument metadata cache: get_precisions and get_pair_parameters.  *)
(***************************************************************************)
EmptyMap == [s \in {} |-> 0]

Put(m, k, v) == [s \in (DOMAIN m) \cup {k} |-> IF s = k THEN v ELSE m[s]]

\* Before the first exchange_info() answer the private attributes do not exist.
NoCache ==
    [defined |-> FALSE, quantity_precisions |-> EmptyMap,
     prices_precisions |-> EmptyMap, step_sizes |-> EmptyMap,
     tick_sizes |-> EmptyMap, min_sizes |-> EmptyMap]

\* Lines 64-68: the five dicts are reset as soon as exchange_info() answers.
ResetCache ==
    [defined |-> TRUE, quantity_precisions |-> EmptyMap,
     prices_precisions |-> EmptyMap, step_sizes |-> EmptyMap,
     tick_sizes |-> EmptyMap, min_sizes |-> EmptyMap]

\* What the exchange lists for a symbol when the listing is well-formed.
InstrumentFilters ==
    [BTCUSDT |-> [tickSize |-> 1, stepSize |-> 2, minQty |-> 2,
                  quantityPrecision |-> 3, pricePrecision |-> 1],
     ETHUSDT |-> [tickSize |-> 5, stepSize |-> 1, minQty |-> 2,
                  quantityPrecision |-> 2, pricePrecision |-> 2]]

PriceFilter(s) ==
    [filterType |-> "PRICE_FILTER", tickSize |-> Some(InstrumentFilters[s].tickSize),
     minQty |-> None, stepSize |-> None]

LotSize(s) ==
    [filterType |-> "LOT_SIZE", tickSize |-> None,
     minQty |-> Some(InstrumentFilters[s].minQty),
     stepSize |-> Some(InstrumentFilters[s].stepSize)]

OtherFilter ==
    [filterType |-> "MAX_NUM_ORDERS", tickSize |-> None, minQty |-> None,
     stepSize |-> None]

\* The entries of info['symbols'] the model draws from: a well-formed entry, an
\* entry without a LOT_SIZE filter, an entry whose LOT_SIZE filter lacks
\* stepSize, and an entry without the pricePrecision key.
InfoItems ==
    UNION {
        { [symbol |-> s, quantityPrecision |-> Some(InstrumentFilters[s].quantityPrecision),
           pricePrecision |-> Some(InstrumentFilters[s].pricePrecision),
           filters |-> <<PriceFilter(s), LotSize(s), OtherFilter>>],
          [symbol |-> s, quantityPrecision |-> Some(InstrumentFilters[s].quantityPrecision),
           pricePrecision |-> Some(InstrumentFilters[s].pricePrecision),
           filters |-> <<PriceFilter(s)>>],
          [symbol |-> s, quantityPrecision |-> Some(InstrumentFilters[s].quantityPrecision),
           pricePrecision |-> Some(InstrumentFilters[s].pricePrecision),
           filters |-> <<PriceFilter(s), [LotSize(s) EXCEPT !.stepSize = None]>>],
          [symbol |-> s, quantityPrecision |-> Some(InstrumentFilters[s].quantityPrecision),
           pricePrecision |-> None,
           filters |-> <<PriceFilter(s), LotSize(s)>>] }
        : s \in Symbols }

\* The answers of exchange_info(): each symbol listed at most once.
InfoAnswers ==
    {a \in SeqsUpTo(InfoItems, MaxListed) :
        \A i, j \in 1..Len(a) : i # j => a[i].symbol # a[j].symbol}

\* Lines 74-79 for one filter.  The result carries ok = FALSE when a key is
\* missing: the assignments made before the KeyError stay.
ApplyFilter(c, sym, f) ==
    IF f.filterType = "PRICE_FILTER"
    THEN IF f.tickSize = None
         THEN [c |-> c, ok |-> FALSE]
         ELSE [c |-> [c EXCEPT !.tick_sizes = Put(@, sym, f.tickSize[1])], ok |-> TRUE]
    ELSE IF f.filterType = "LOT_SIZE"
    THEN IF f.minQty = None
         THEN [c |-> c, ok |-> FALSE]
         ELSE LET c1 == [c EXCEPT !.min_sizes = Put(@, sym, f.minQty[1])]
              IN  IF f.stepSize = None
                  THEN [c |-> c1, ok |-> FALSE]
                  ELSE [c |-> [c1 EXCEPT !.step_sizes = Put(@, sym, f.stepSize[1])],
                        ok |-> TRUE]
    ELSE [c |-> c, ok |-> TRUE]

RECURSIVE ApplyFilters(_, _, _)
ApplyFilters(c, sym, fs) ==
    IF fs = <<>>
    THEN [c |-> c, ok |-> TRUE]
    ELSE LET r == ApplyFilter(c, sym, Head(fs))
         IN  IF r.ok THEN ApplyFilters(r.c, sym, Tail(fs)) ELSE r

\* Lines 71-79 for one entry of info['symbols'].
ApplyItem(c, item) ==
    IF item.quantityPrecision = None
    THEN [c |-> c, ok |-> FALSE]
    ELSE LET c1 == [c EXCEPT !.quantity_precisions =
                        Put(@, item.symbol, item.quantityPrecision[1])]
         IN  IF item.pricePrecision = None
             THEN [c |-> c1, ok |-> FALSE]
             ELSE ApplyFilters(
                    [c1 EXCEPT !.prices_precisions =
                        Put(@, item.symbol, item.pricePrecision[1])],
                    item.symbol, item.filters)

RECURSIVE ApplyItems(_, _)
ApplyItems(c, items) ==
    IF items = <<>>
    THEN [c |-> c, ok |-> TRUE]
    ELSE LET r == ApplyItem(c, Head(items))
         IN  IF r.ok THEN ApplyItems(r.c, Tail(items)) ELSE r

\* get_precisions as a function of the cache before the call and of the answer
\* of exchange_info(): listed = FALSE when the listing call itself raises.
\* The except clause prints and returns None, whatever was assigned stays.
get_precisions(c, listed, info) ==
    IF ~listed THEN c ELSE ApplyItems(ResetCache, info).c

\* Whether the load ran to its end without an exception.
LoadSucceeds(listed, info) == listed /\ ApplyItems(ResetCache, info).ok


\* get_pair_parameters(pair): the five lookups of lines 87-92 and the ticker
\* call of line 88.  A missing attribute or key, or a failing ticker call, is
\* caught at line 103 and an error dict is returned.  The tick size of BTCUSDT
\* is the literal 0.1 of line 92 and is not looked up.
BtcTickSize == 1

Ret(kind, leg, msg, val) == [kind |-> kind, leg |-> leg, msg |-> msg, val |-> val]

get_pair_parameters(c, pair, tickerOk, price) ==
    IF ~c.defined \/ pair \notin DOMAIN c.min_sizes
        THEN Ret("error", 0, "min_sizes", None)
    ELSE IF ~tickerOk
        THEN Ret("error", 0, "ticker_price", None)
    ELSE IF pair \notin DOMAIN c.prices_precisions
        THEN Ret("error", 0, "prices_precisions", None)
    ELSE IF pair \notin DOMAIN c.quantity_precisions
        THEN Ret("error", 0, "quantity_precisions", None)
    ELSE IF pair \notin DOMAIN c.step_sizes
        THEN Ret("error", 0, "step_sizes", None)
    ELSE IF pair # "BTCUSDT" /\ pair \notin DOMAIN c.tick_sizes
        THEN Ret("error", 0, "tick_sizes", None)
    ELSE Ret("params", 0, "",
             <<c.min_sizes[pair], price, c.prices_precisions[pair],
               c.quantity_precisions[pair], c.step_sizes[pair],
               IF pair # "BTCUSDT" THEN c.tick_sizes[pair] ELSE BtcTickSize>>)

(***************************************************************************)
(* Orders.  A method's run is a log of the orderObj dicts handed to        *)
(* client.new_order, in order, and the value returned.  rej is the set of  *)
(* positions in the log whose new_order call the exchange rejects (the     *)
(* call raises).                                                           *)
(***************************************************************************)
\* Lines 141-153: the orderObj dict.
OrderObj(pair, side, quantity, market, positionSide, timeInForce, price, stopPrice, workingType, priceProtect, closePosition) ==
    [symbol |-> pair, side |-> side, positionSide |-> positionSide,
     type |-> market, quantity |-> quantity, timeInForce |-> timeInForce,
     price |-> price, stopPrice |-> stopPrice, workingType |-> workingType,
     priceProtect |-> priceProtect, closePosition |-> closePosition]

\* Lines 155-159: the order goes to new_order; its answer is returned, or the
\* exception as {"error": e}.  make_order never raises.
make_order(log, rej, orderObj) ==
    LET k == Len(log) + 1
    IN  [log |-> Append(log, orderObj),
         ret |-> IF k \in rej THEN Ret("error", k, "new_order", None)
                 ELSE Ret("order", k, "", None)]

\* Lines 162-173, with the defaults of make_order's signature (line 140).
market_order(log, rej, pair, side, precized_quantity) ==
    make_order(log, rej,
        OrderObj(pair, IF side = "long" THEN "BUY" ELSE "SELL",
                 Some(precized_quantity), "MARKET", "BOTH", None, None, None,
                 "CONTRACT_PRICE", FALSE, FALSE))

\* limit_order with the quantity and the price handed to make_order in each
\* other's place.
limit_order_SwappedArguments(log, rej, pair, side, precized_quantity, limit_price, tick_size) ==
    make_order(log, rej,
        OrderObj(pair, IF side = "long" THEN "BUY" ELSE "SELL",
                 Some(round_step_size(limit_price, 1, tick_size)), "LIMIT", "BOTH",
                 Some("GTC"), Some(precized_quantity), None,
                 "CONTRACT_PRICE", FALSE, FALSE))

\* Lines 176-188.
limit_order(log, rej, pair, side, precized_quantity, limit_price, tick_size) ==
    make_order(log, rej,
        OrderObj(pair, IF side = "long" THEN "BUY" ELSE "SELL",
                 Some(precized_quantity), "LIMIT", "BOTH", Some("GTC"),
                 Some(round_step_size(limit_price, 1, tick_size)), None,
                 "CONTRACT_PRICE", FALSE, FALSE))

\* stoploss_price with the two signs exchanged.
stoploss_price_SwappedSigns(side, price, stoploss, tick_size) ==
    IF side = "long"
    THEN round_step_size(price * (100 + stoploss), 100, tick_size)
    ELSE round_step_size(price * (100 - stoploss), 100, tick_size)

\* Lines 200 and 212: the stop-loss trigger price.
stoploss_price(side, price, stoploss, tick_size) ==
    IF side = "long"
    THEN round_step_size(price * (100 - stoploss), 100, tick_size)
    ELSE round_step_size(price * (100 + stoploss), 100, tick_size)

\* Lines 240 and 252: the take-profit trigger price.
takeprofit_price(side, price, takeprofit, tick_size) ==
    IF side = "long"
    THEN round_step_size(price * (100 + takeprofit), 100, tick_size)
    ELSE round_step_size(price * (100 - takeprofit), 100, tick_size)

\* Lines 202-204 and 214-216 (242-244, 254-256): the scan of the positions.
HasPosition(positions, pair, side) ==
    \E i \in 1..Len(positions) :
        /\ positions[i].symbol = pair
        /\ Abs(positions[i].positionAmt) > 0
        /\ IF side = "long"
           THEN positions[i].positionAmt > 0 /\ positions[i].positionSide = "LONG"
           ELSE positions[i].positionAmt < 0 /\ positions[i].positionSide = "SHORT"

\* ProtectiveObj with the side of the entry order instead of the opposite one.
ProtectiveObj_EntrySide(pair, side, market, stopPrice) ==
    OrderObj(pair, IF side = "long" THEN "BUY" ELSE "SELL", None, market,
             "BOTH", Some("GTE_GTC"), None, Some(stopPrice), "MARK_PRICE",
             TRUE, TRUE)

\* The protective order of lines 205, 210, 217, 222 (245, 250, 257, 262).
ProtectiveObj(pair, side, market, stopPrice) ==
    OrderObj(pair, IF side = "long" THEN "SELL" ELSE "BUY", None, market,
             "BOTH", Some("GTE_GTC"), None, Some(stopPrice), "MARK_PRICE",
             TRUE, TRUE)

\* Lines 202-225 (242-265): with a position found, the protective order alone;
\* otherwise the market order, whose answer is dropped, then the protective
\* order, whose answer is returned.
PlaceProtective(rej, positions, pair, side, precized_quantity, market, stopPrice) ==
    IF HasPosition(positions, pair, side)
    THEN make_order(<<>>, rej, ProtectiveObj(pair, side, market, stopPrice))
    ELSE LET entry == market_order(<<>>, rej, pair, side, precized_quantity)
         IN  make_order(entry.log, rej, ProtectiveObj(pair, side, market, stopPrice))

\* Lines 191-228.  down names the read call that raised, if any.
stop_loss_order(rej, down, price, positions, pair, side, precized_quantity, stoploss, tick_size) ==
    IF "ticker_price" \in down THEN [log |-> <<>>, ret |-> Ret("error", 0, "ticker_price", None)]
    ELSE IF "account" \in down THEN [log |-> <<>>, ret |-> Ret("error", 0, "account", None)]
    ELSE PlaceProtective(rej, positions, pair, side, precized_quantity, "STOP_MARKET",
                         stoploss_price(side, price, stoploss, tick_size))

\* Lines 231-268.
take_profit_order(rej, down, price, positions, pair, side, precized_quantity, takeprofit, tick_size) ==
    IF "ticker_price" \in down THEN [log |-> <<>>, ret |-> Ret("error", 0, "ticker_price", None)]
    ELSE IF "account" \in down THEN [log |-> <<>>, ret |-> Ret("error", 0, "account", None)]
    ELSE PlaceProtective(rej, positions, pair, side, precized_quantity,
                         "TAKE_PROFIT_MARKET",
                         takeprofit_price(side, price, takeprofit, tick_size))

\* ClosePosition without the minus sign of line 279.
ClosePosition_SignedAmount(log, rej, pos) ==
    IF Abs(pos.positionAmt) > 0
    THEN IF pos.positionAmt > 0
         THEN market_order(log, rej, pos.symbol, "short", pos.positionAmt).log
         ELSE market_order(log, rej, pos.symbol, "long", pos.positionAmt).log
    ELSE log

\* Lines 275-279 for one position.
ClosePosition(log, rej, pos) ==
    IF Abs(pos.positionAmt) > 0
    THEN IF pos.positionAmt > 0
         THEN market_order(log, rej, pos.symbol, "short", pos.positionAmt).log
         ELSE market_order(log, rej, pos.symbol, "long", -pos.positionAmt).log
    ELSE log

RECURSIVE ClosePositions(_, _, _)
ClosePositions(log, rej, positions) ==
    IF positions = <<>> THEN log
    ELSE ClosePositions(ClosePosition(log, rej, Head(positions)), rej, Tail(positions))

\* Lines 271-287.
close_all_positions(rej, down, positions) ==
    IF "account" \in down THEN [log |-> <<>>, ret |-> Ret("error", 0, "account", None)]
    ELSE [log |-> ClosePositions(<<>>, rej, positions),
          ret |-> Ret("message", 0, "close-done", None)]

\* Lines 293-296: one cancel_open_orders call per open order, in the order of
\* the list; the first call that raises ends the loop.  failed is the set of
\* positions in the log of cancel calls that raise.
RECURSIVE CancelEach(_, _, _)
CancelEach(log, failed, order_symbols) ==
    IF order_symbols = <<>> THEN [log |-> log, ok |-> TRUE]
    ELSE LET log1 == Append(log, Head(order_symbols))
         IN  IF Len(log1) \in failed
             THEN [log |-> log1, ok |-> FALSE]
             ELSE CancelEach(log1, failed, Tail(order_symbols))

\* Lines 290-303.  orders is the list of the symbols of the open orders.
cancel_all_orders(failed, down, orders) ==
    IF "get_orders" \in down
    THEN [log |-> <<>>, ret |-> Ret("error", 0, "get_orders", None)]
    ELSE LET r == CancelEach(<<>>, failed, orders)
         IN  [log |-> r.log,
              ret |-> IF r.ok THEN Ret("message", 0, "cancel-done", None)
                      ELSE Ret("error", Len(r.log), "cancel_open_orders", None)]

\* Lines 125-137: the mode the exchange holds after change_position_mode(mode).
change_position_mode(is_dual_side, mode, down) ==
    IF "get_position_mode" \in down THEN is_dual_side
    ELSE IF is_dual_side /\ mode = "one-way"
        THEN (IF "change_position_mode" \in down THEN is_dual_side ELSE FALSE)
    ELSE IF ~is_dual_side /\ mode = "hedge"
        THEN (IF "change_position_mode" \in down THEN is_dual_side ELSE TRUE)
    ELSE is_dual_side


(***************************************************************************)
(* The inputs: what callers pass and what the exchange answers.            *)
(***************************************************************************)
Sides == {"long", "short"}
Modes == {"one-way", "hedge"}
Quantities == 1..MaxQty
Prices == {1000, 1003}
Percents == {2, 5}
TickSizes == {1, 5}

\* The entries of account()['positions'].  In one-way mode every position has
\* positionSide BOTH and a signed amount; in hedge mode a LONG position has an
\* amount >= 0 and a SHORT position an amount <= 0.
PositionEntries(is_dual_side) ==
    IF is_dual_side
    THEN [symbol : Symbols, positionAmt : 0..MaxAmt, positionSide : {"LONG"}]
         \cup [symbol : Symbols, positionAmt : (-MaxAmt)..0, positionSide : {"SHORT"}]
    ELSE [symbol : Symbols, positionAmt : (-MaxAmt)..MaxAmt, positionSide : {"BOTH"}]

\* The exchange lists a symbol at most once per positionSide, in the order of
\* its instrument list.
PositionKey(p) ==
    3 * (IF p.symbol = "BTCUSDT" THEN 0 ELSE 1)
    + (IF p.positionSide = "BOTH" THEN 0 ELSE IF p.positionSide = "LONG" THEN 1 ELSE 2)

PositionLists(is_dual_side) ==
    {ps \in SeqsUpTo(PositionEntries(is_dual_side), MaxPositions) :
        \A i \in 1..(Len(ps) - 1) : PositionKey(ps[i]) < PositionKey(ps[i + 1])}

\* The symbols of the entries of get_orders(), one entry per open order.
OpenOrderLists == SeqsUpTo(Symbols, MaxOrders)

Call(name, pair, side, qty, pct, tick, limit, mode) ==
    [name |-> name, pair |-> pair, side |-> side, qty |-> qty, pct |-> pct,
     tick |-> tick, limit |-> limit, mode |-> mode]

Seen(price, positions, orders, info, rejected, failed, down) ==
    [price |-> price, positions |-> positions, orders |-> orders, info |-> info,
     rejected |-> rejected, failed |-> failed, down |-> down]

NoRet == Ret("none", 0, "", None)

\* The variables that describe one call, before any call is made.
NoCall == Call("", "", "", 0, 0, 0, 0, "")
NoSeen == Seen(0, <<>>, <<>>, <<>>, {}, {}, {})

(***************************************************************************)
(* The state after construction: __init__ (lines 30-32) calls              *)
(* get_precisions once, on a client without the private attributes.        *)
(***************************************************************************)
Init ==
    /\ dual \in BOOLEAN
    /\ \E listed \in BOOLEAN, info \in InfoAnswers :
        /\ ~listed => info = <<>>
        /\ cache = get_precisions(NoCache, listed, info)
    /\ call = NoCall
    /\ seen = NoSeen
    /\ sent = <<>>
    /\ cancels = <<>>
    /\ ret = NoRet
    /\ pc = "idle"

\* The caller has the returned value; the next call starts with empty logs.
Return ==
    /\ pc = "returned"
    /\ pc' = "idle"
    /\ call' = NoCall
    /\ seen' = NoSeen
    /\ sent' = <<>>
    /\ cancels' = <<>>
    /\ ret' = NoRet
    /\ UNCHANGED <<cache, dual>>

GetPrecisions ==
    /\ pc = "idle"
    /\ pc' = "returned"
    /\ \E listed \in BOOLEAN, info \in InfoAnswers :
        /\ ~listed => info = <<>>
        /\ cache' = get_precisions(cache, listed, info)
        /\ seen' = Seen(0, <<>>, <<>>, info, {}, {},
                        IF listed THEN {} ELSE {"exchange_info"})
    /\ call' = Call("get_precisions", "", "", 0, 0, 0, 0, "")
    /\ sent' = <<>>
    /\ cancels' = <<>>
    /\ ret' = NoRet
    /\ UNCHANGED dual

GetPairParameters ==
    /\ pc = "idle"
    /\ pc' = "returned"
    /\ \E pair \in Symbols, tickerOk \in BOOLEAN, price \in Prices :
        /\ ret' = get_pair_parameters(cache, pair, tickerOk, price)
        \* the ticker is asked only once min_sizes[pair] was found
        /\ ~tickerOk => ret'.msg = "ticker_price" /\ price = 1000
        /\ ret'.msg = "min_sizes" => price = 1000
        /\ seen' = Seen(IF ret'.msg \in {"min_sizes", "ticker_price"} THEN 0 ELSE price,
                        <<>>, <<>>, <<>>, {}, {},
                        IF tickerOk THEN {} ELSE {"ticker_price"})
        /\ call' = Call("get_pair_parameters", pair, "", 0, 0, 0, 0, "")
    /\ sent' = <<>>
    /\ cancels' = <<>>
    /\ UNCHANGED <<cache, dual>>

ChangePositionMode ==
    /\ pc = "idle"
    /\ pc' = "returned"
    /\ \E mode \in Modes, down \in {{}, {"get_position_mode"}, {"change_position_mode"}} :
        \* change_position_mode is reached only when the mode differs
        /\ "change_position_mode" \in down => dual # (mode = "hedge")
        /\ dual' = change_position_mode(dual, mode, down)
        /\ call' = Call("change_position_mode", "", "", 0, 0, 0, 0, mode)
        /\ seen' = Seen(0, <<>>, <<>>, <<>>, {}, {}, down)
    /\ sent' = <<>>
    /\ cancels' = <<>>
    /\ ret' = NoRet
    /\ UNCHANGED cache

\* The rejections drawn are those of new_order calls that can be made.
Rejections(n) == SUBSET (1..n)

MarketOrder ==
    /\ pc = "idle"
    /\ pc' = "returned"
    /\ \E pair \in Symbols, side \in Sides, q \in Quantities, rej \in Rejections(1) :
        LET r == market_order(<<>>, rej, pair, side, q)
        IN  /\ sent' = r.log
            /\ ret' = r.ret
            /\ call' = Call("market_order", pair, side, q, 0, 0, 0, "")
            /\ seen' = Seen(0, <<>>, <<>>, <<>>, rej, {}, {})
    /\ cancels' = <<>>
    /\ UNCHANGED <<cache, dual>>

LimitOrder ==
    /\ pc = "idle"
    /\ pc' = "returned"
    /\ \E pair \in Symbols, side \in Sides, q \in Quantities, limit \in Prices,
          tick \in TickSizes, rej \in Rejections(1) :
        LET r == limit_order(<<>>, rej, pair, side, q, limit, tick)
        IN  /\ sent' = r.log
            /\ ret' = r.ret
            /\ call' = Call("limit_order", pair, side, q, 0, tick, limit, "")
            /\ seen' = Seen(0, <<>>, <<>>, <<>>, rej, {}, {})
    /\ cancels' = <<>>
    /\ UNCHANGED <<cache, dual>>

\* The read calls of a protective order, ticker_price then account: the one
\* that raises, the price and the position list answered.
ProtectiveReads ==
    {<<{}, price, positions>> : price \in Prices, positions \in PositionLists(dual)}
    \cup {<<{"account"}, price, <<>> >> : price \in Prices}
    \cup {<<{"ticker_price"}, 0, <<>> >>}

StopLossOrder ==
    /\ pc = "idle"
    /\ pc' = "returned"
    /\ \E pair \in Symbols, side \in Sides, q \in Quantities, pct \in Percents,
          tick \in TickSizes, rej \in Rejections(2), reads \in ProtectiveReads :
        LET r == stop_loss_order(rej, reads[1], reads[2], reads[3], pair, side, q, pct, tick)
        IN  /\ rej \subseteq 1..Len(r.log)
            /\ sent' = r.log
            /\ ret' = r.ret
            /\ call' = Call("stop_loss_order", pair, side, q, pct, tick, 0, "")
            /\ seen' = Seen(reads[2], reads[3], <<>>, <<>>, rej, {}, reads[1])
    /\ cancels' = <<>>
    /\ UNCHANGED <<cache, dual>>

TakeProfitOrder ==
    /\ pc = "idle"
    /\ pc' = "returned"
    /\ \E pair \in Symbols, side \in Sides, q \in Quantities, pct \in Percents,
          tick \in TickSizes, rej \in Rejections(2), reads \in ProtectiveReads :
        LET r == take_profit_order(rej, reads[1], reads[2], reads[3], pair, side, q, pct, tick)
        IN  /\ rej \subseteq 1..Len(r.log)
            /\ sent' = r.log
            /\ ret' = r.ret
            /\ call' = Call("take_profit_order", pair, side, q, pct, tick, 0, "")
            /\ seen' = Seen(reads[2], reads[3], <<>>, <<>>, rej, {}, reads[1])
    /\ cancels' = <<>>
    /\ UNCHANGED <<cache, dual>>

CloseAllPositions ==
    /\ pc = "idle"
    /\ pc' = "returned"
    /\ \E down \in {{}, {"account"}}, rej \in Rejections(MaxPositions) :
        \E positions \in PositionLists(dual) :
            /\ down # {} => positions = <<>>
            /\ LET r == close_all_positions(rej, down, positions)
               IN  /\ rej \subseteq 1..Len(r.log)
                   /\ sent' = r.log
                   /\ ret' = r.ret
            /\ call' = Call("close_all_positions", "", "", 0, 0, 0, 0, "")
            /\ seen' = Seen(0, positions, <<>>, <<>>, rej, {}, down)
    /\ cancels' = <<>>
    /\ UNCHANGED <<cache, dual>>

CancelAllOrders ==
    /\ pc = "idle"
    /\ pc' = "returned"
    /\ \E down \in {{}, {"get_orders"}}, failed \in SUBSET (1..MaxOrders),
          orders \in OpenOrderLists :
        /\ down # {} => orders = <<>>
        /\ LET r == cancel_all_orders(failed, down, orders)
           IN  /\ failed \subseteq 1..Len(r.log)
               /\ cancels' = r.log
               /\ ret' = r.ret
        /\ call' = Call("cancel_all_orders", "", "", 0, 0, 0, 0, "")
        /\ seen' = Seen(0, <<>>, orders, <<>>, {}, failed, down)
    /\ sent' = <<>>
    /\ UNCHANGED <<cache, dual>>

Next ==
    \/ GetPrecisions
    \/ GetPairParameters
    \/ ChangePositionMode
    \/ MarketOrder
    \/ LimitOrder
    \/ StopLossOrder
    \/ TakeProfitOrder
    \/ CloseAllPositions
    \/ CancelAllOrders
    \/ Return

Spec == Init /\ [][Next]_vars


(***************************************************************************)
(* Properties.                                                             *)
(***************************************************************************)
Returned(name) == pc = "returned" /\ call.name = name

\* A stop_loss_order or take_profit_order call to which the exchange answered
\* both the price and the position list.
ProtectiveCall ==
    /\ pc = "returned"
    /\ call.name \in {"stop_loss_order", "take_profit_order"}
    /\ seen.down = {}

IsProtective(o) ==
    o.type \in {"STOP_MARKET", "TAKE_PROFIT_MARKET"} /\ o.closePosition

IsEntry(o) == o.type = "MARKET" /\ ~o.closePosition

\* A position of the list that matches the requested direction under the
\* position mode the exchange holds.
MatchingPosition(positions, pair, side, is_dual_side) ==
    \E i \in 1..Len(positions) :
        /\ positions[i].symbol = pair
        /\ positions[i].positionAmt # 0
        /\ (side = "long") = (positions[i].positionAmt > 0)
        /\ positions[i].positionSide =
              (IF ~is_dual_side THEN "BOTH" ELSE IF side = "long" THEN "LONG" ELSE "SHORT")

\* C1: a protective-order call answered with a position list that holds a
\* matching position (BOTH in one-way mode, LONG/SHORT in hedge mode) sends
\* exactly one order, the protective one; with no matching position it sends
\* exactly two, the market entry order first and the protective order second.
C1_ProtectiveOrderCount ==
    ProtectiveCall =>
        IF MatchingPosition(seen.positions, call.pair, call.side, dual)
        THEN Len(sent) = 1 /\ IsProtective(sent[1])
        ELSE Len(sent) = 2 /\ IsEntry(sent[1]) /\ IsProtective(sent[2])

Count(s, x) == Cardinality({i \in 1..Len(s) : s[i] = x})

Range(s) == {s[i] : i \in 1..Len(s)}

\* C2: when get_orders answers and no cancel call fails, cancel_all_orders
\* issues exactly one cancel_open_orders call per distinct symbol of the list
\* and none for a symbol without an open order.
C2_OneCancelPerSymbol ==
    (Returned("cancel_all_orders") /\ seen.down = {} /\ seen.failed = {}) =>
        \A s \in Symbols :
            Count(cancels, s) = (IF s \in Range(seen.orders) THEN 1 ELSE 0)

NonZero(pos) == pos.positionAmt # 0

\* C3: when account() answers, close_all_positions sends exactly one MARKET
\* order per position with nonzero amount, in the order of the list, and none
\* for a position with amount zero: SELL for a positive amount, BUY for a
\* negative one, with quantity the absolute value of the amount.
C3_CloseAllOrders ==
    (Returned("close_all_positions") /\ seen.down = {}) =>
        LET open == SelectSeq(seen.positions, NonZero)
        IN  /\ Len(sent) = Len(open)
            /\ \A k \in 1..Len(open) :
                /\ sent[k].symbol = open[k].symbol
                /\ sent[k].type = "MARKET"
                /\ sent[k].side = (IF open[k].positionAmt > 0 THEN "SELL" ELSE "BUY")
                /\ sent[k].quantity = Some(Abs(open[k].positionAmt))
                /\ ~sent[k].closePosition

\* C3 witness: a long and a short position were closed, one of the two orders
\* being rejected by the exchange.
C3_Witness ==
    /\ Returned("close_all_positions")
    /\ Len(sent) = 2
    /\ seen.rejected = {1}
    /\ \E i, j \in 1..Len(seen.positions) :
        seen.positions[i].positionAmt > 0 /\ seen.positions[j].positionAmt < 0

\* C4: when the exchange rejects a closing order, the closing orders of the
\* other nonzero positions are still sent and the returned value tells the
\* failure: it is not the value returned when every position was closed.
C4_CloseAllReportsFailures ==
    (Returned("close_all_positions") /\ seen.down = {}) =>
        /\ Len(sent) = Len(SelectSeq(seen.positions, NonZero))
        /\ seen.rejected # {} => ret # Ret("message", 0, "close-done", None)

\* C5: when get_orders answers, every symbol with an open order gets its
\* cancel_open_orders call, whether or not the cancel call of another symbol
\* failed.
C5_CancelContinuesPastFailure ==
    (Returned("cancel_all_orders") /\ seen.down = {}) =>
        \A s \in Range(seen.orders) : s \in Range(cancels)

OrderingCall ==
    /\ pc = "returned"
    /\ call.name \in {"market_order", "limit_order", "stop_loss_order", "take_profit_order"}

\* The cache holds every field of the symbol.
Cached(sym) ==
    /\ sym \in DOMAIN cache.quantity_precisions
    /\ sym \in DOMAIN cache.prices_precisions
    /\ sym \in DOMAIN cache.tick_sizes
    /\ sym \in DOMAIN cache.step_sizes
    /\ sym \in DOMAIN cache.min_sizes

PositionSideResolver(direction, isClosing, is_dual_side) ==
    [side |-> IF (direction = "long") = ~isClosing THEN "BUY" ELSE "SELL",
     positionSide |-> IF ~is_dual_side THEN "BOTH"
                      ELSE IF direction = "long" THEN "LONG" ELSE "SHORT"]

\* The direction of the position the k-th order of the last call opens or
\* closes, and whether it closes it.
OrderDirection(k) ==
    IF call.name = "close_all_positions"
    THEN IF SelectSeq(seen.positions, NonZero)[k].positionAmt > 0 THEN "long" ELSE "short"
    ELSE call.side

OrderCloses(k) ==
    call.name = "close_all_positions" \/ sent[k].closePosition

C8_EntryErrorReturned ==
    (ProtectiveCall /\ Len(sent) = 2 /\ IsEntry(sent[1]) /\ 1 \in seen.rejected) =>
        ret.kind = "error" /\ ret.leg = 1

\* The exact trigger price times 100: price * (100 - pct) for a long stop-loss
\* and a short take-profit, price * (100 + pct) for a long take-profit and a
\* short stop-loss.
ExactTrigger100 ==
    IF (call.name = "stop_loss_order") = (call.side = "long")
    THEN seen.price * (100 - call.pct)
    ELSE seen.price * (100 + call.pct)

\* C9: the stopPrice of the protective order sent is a multiple of tickSize
\* less than one tick away from the exact trigger price; a long stop-loss
\* with price 100.0, 2 percent and tickSize 0.1 is sent with stopPrice 98.0.
C9_TriggerPrice ==
    ProtectiveCall =>
        LET o == sent[Len(sent)]
        IN  /\ IsProtective(o)
            /\ o.stopPrice # None
            /\ o.stopPrice[1] % call.tick = 0
            /\ Abs(100 * o.stopPrice[1] - ExactTrigger100) < 100 * call.tick
            /\ (/\ call.name = "stop_loss_order" /\ call.side = "long"
                /\ seen.price = 1000 /\ call.pct = 2 /\ call.tick = 1) =>
                    o.stopPrice = Some(980)

\* C9 witness: a protective order was sent whose trigger price had to be
\* quantized, the exact price being no multiple of the tick size.
C9_Witness ==
    /\ ProtectiveCall
    /\ call.tick = 5
    /\ ExactTrigger100 % (100 * call.tick) # 0
    /\ sent[Len(sent)].stopPrice # None

\* C10: a get_precisions call that fails, at the listing call or midway
\* through a symbol, leaves the cache as it was before the call.
C10_FailedLoadKeepsCache ==
    [][(call'.name = "get_precisions"
        /\ ~LoadSucceeds(seen'.down = {}, seen'.info)) => cache' = cache]_vars

====
